---- MODULE Spec2Model ----
(***************************************************************************)
(* Model of generate_icons.py: main() ensures the output directory and     *)
(* calls create_icon once per entry of the icons list; create_icon makes a *)
(* fresh canvas, draws the primitives of the requested shape and saves the *)
(* canvas as a PNG file.  The file system persists between runs of the     *)
(* script; everything else is local to one run (or one call).              *)
(***************************************************************************)
EXTENDS Integers, Sequences, FiniteSets, TLC

\* ------------------------------------------------------------------ bounds
\* number of times the script is run against the same file system
MaxRuns == 2

\* --------------------------------------------------------------- constants
ICON_SIZE == <<81, 81>>

\* An RGBA colour: the three 8-bit colour channels packed into one number,
\* and the 8-bit alpha channel.
RGBA(r, g, b, a) == <<(r * 256 + g) * 256 + b, a>>
Alpha(c) == c[2]

BG_COLOR == RGBA(255, 255, 255, 0)
ICON_COLOR == RGBA(51, 51, 51, 255)
ACTIVE_ICON_COLOR == RGBA(0, 122, 255, 255)
\* the literal (255, 165, 0, 255) of the three marker primitives
MARKER_COLOR == RGBA(255, 165, 0, 255)

\* os.path.join(dirname(abspath(__file__)), "images")
icon_dir == "images"

\* a slip in the list: the second entry names the file of the first
icons_dup ==
  << <<"home.png", "home", ICON_COLOR>>,
     <<"home.png", "home-active", ACTIVE_ICON_COLOR>>,
     <<"member.png", "member", ICON_COLOR>>,
     <<"member-active.png", "member-active", ACTIVE_ICON_COLOR>>,
     <<"activity.png", "activity", ICON_COLOR>>,
     <<"activity-active.png", "activity-active", ACTIVE_ICON_COLOR>> >>

\* the icons list of main()
icons ==
  << <<"home.png", "home", ICON_COLOR>>,
     <<"home-active.png", "home-active", ACTIVE_ICON_COLOR>>,
     <<"member.png", "member", ICON_COLOR>>,
     <<"member-active.png", "member-active", ACTIVE_ICON_COLOR>>,
     <<"activity.png", "activity", ICON_COLOR>>,
     <<"activity-active.png", "activity-active", ACTIVE_ICON_COLOR>> >>

\* os.path.join(icon_dir, filename)
PathJoin(dir, filename) == <<dir, filename>>

\* ------------------------------------------------------------- primitives
Prim(kind, xy, fill, radius, width, text) ==
  [kind |-> kind, xy |-> xy, fill |-> fill,
   radius |-> radius, width |-> width, text |-> text]

Polygon(xy, fill) == Prim("polygon", xy, fill, 0, 0, "")
Rectangle(xy, fill) == Prim("rectangle", xy, fill, 0, 0, "")
RoundedRectangle(xy, radius, fill) == Prim("rounded_rectangle", xy, fill, radius, 0, "")
Ellipse(xy, fill) == Prim("ellipse", xy, fill, 0, 0, "")
Line(xy, fill, width) == Prim("line", xy, fill, 0, width, "")
Text(xy, text, fill) == Prim("text", xy, fill, 0, 0, text)

\* the ten vertices of the star drawn on member-active and activity-active
StarXY ==
  << <<60, 30>>, <<62, 35>>, <<67, 35>>, <<63, 38>>, <<65, 43>>,
     <<60, 40>>, <<55, 43>>, <<57, 38>>, <<53, 35>>, <<58, 35>> >>

\* the shape names create_icon has a branch for
KnownShapes ==
  {"home", "home-active", "member", "member-active", "activity", "activity-active"}

\* the branches of create_icon: the draw calls of a known shape, in order
Recipe(shape, color) ==
  CASE shape = "home" ->
         << Polygon(<< <<40, 15>>, <<15, 40>>, <<65, 40>> >>, color),
            Rectangle(<<20, 40, 60, 65>>, color),
            Rectangle(<<37, 50, 43, 65>>, BG_COLOR) >>
    [] shape = "home-active" ->
         << Polygon(<< <<40, 15>>, <<15, 40>>, <<65, 40>> >>, ACTIVE_ICON_COLOR),
            Rectangle(<<20, 40, 60, 65>>, ACTIVE_ICON_COLOR),
            Rectangle(<<37, 50, 43, 65>>, BG_COLOR),
            Ellipse(<<58, 58, 68, 68>>, MARKER_COLOR) >>
    [] shape = "member" ->
         << RoundedRectangle(<<15, 25, 65, 55>>, 5, color),
            Line(<<20, 35, 60, 35>>, BG_COLOR, 2),
            Line(<<20, 42, 60, 42>>, BG_COLOR, 2) >>
    [] shape = "member-active" ->
         << RoundedRectangle(<<15, 25, 65, 55>>, 5, ACTIVE_ICON_COLOR),
            Line(<<20, 35, 60, 35>>, BG_COLOR, 2),
            Line(<<20, 42, 60, 42>>, BG_COLOR, 2),
            Polygon(StarXY, MARKER_COLOR) >>
    [] shape = "activity" ->
         << RoundedRectangle(<<20, 20, 60, 60>>, 5, color),
            Rectangle(<<20, 20, 60, 30>>, color),
            Ellipse(<<35, 15, 45, 25>>, color),
            Ellipse(<<55, 15, 65, 25>>, color),
            Text(<<35, 38>>, "15", BG_COLOR) >>
    [] shape = "activity-active" ->
         << RoundedRectangle(<<20, 20, 60, 60>>, 5, ACTIVE_ICON_COLOR),
            Rectangle(<<20, 20, 60, 30>>, ACTIVE_ICON_COLOR),
            Ellipse(<<35, 15, 45, 25>>, ACTIVE_ICON_COLOR),
            Ellipse(<<55, 15, 65, 25>>, ACTIVE_ICON_COLOR),
            Text(<<35, 38>>, "15", BG_COLOR),
            Polygon(StarXY, MARKER_COLOR) >>

\* a slip: the second card-number line of member-active one row lower
Prims_drift(shape, color) ==
  IF shape = "member-active"
  THEN [Recipe(shape, color) EXCEPT ![3] = Line(<<20, 43, 60, 43>>, BG_COLOR, 2)]
  ELSE IF shape \in KnownShapes THEN Recipe(shape, color) ELSE << >>

\* a slip: the marker of home-active placed over the door
Prims_marker_on_door(shape, color) ==
  IF shape = "home-active"
  THEN [Recipe(shape, color) EXCEPT ![4] = Ellipse(<<38, 58, 48, 68>>, MARKER_COLOR)]
  ELSE IF shape \in KnownShapes THEN Recipe(shape, color) ELSE << >>

\* a slip: the active branches fill with the colour argument
Prims_active_uses_color(shape, color) ==
  IF shape \in KnownShapes
  THEN [j \in DOMAIN Recipe(shape, color) |->
         IF Recipe(shape, color)[j].fill = ACTIVE_ICON_COLOR
         THEN [Recipe(shape, color)[j] EXCEPT !.fill = color]
         ELSE Recipe(shape, color)[j]]
  ELSE << >>

\* a slip: a final else branch that draws the home shape
Prims_fallthrough(shape, color) ==
  IF shape \in KnownShapes THEN Recipe(shape, color) ELSE Recipe("home", color)

\* the if/elif chain of create_icon: the branch of the shape, and no draw
\* call at all for any other shape, as the chain has no else
Prims(shape, color) ==
  IF shape \in KnownShapes THEN Recipe(shape, color) ELSE << >>

\* ------------------------------------------------------------ rasterizing
\* Pixel (x, y) lies on the closed segment a-b.
OnSegment(a, b, x, y) ==
  /\ (b[1] - a[1]) * (y - a[2]) = (b[2] - a[2]) * (x - a[1])
  /\ (a[1] <= x /\ x <= b[1]) \/ (b[1] <= x /\ x <= a[1])
  /\ (a[2] <= y /\ y <= b[2]) \/ (b[2] <= y /\ y <= a[2])

\* The ray from (x, y) to the right crosses the edge a-b.
Crosses(a, b, x, y) ==
  /\ (a[2] > y) # (b[2] > y)
  /\ LET t == (x - a[1]) * (b[2] - a[2]) - (y - a[2]) * (b[1] - a[1])
     IN  IF b[2] > a[2] THEN t < 0 ELSE t > 0

\* draw.polygon(xy, fill): the outline and the even-odd interior
InPolygon(xy, x, y) ==
  LET n == Len(xy)
      nxt(e) == IF e = n THEN 1 ELSE e + 1
  IN  \/ \E e \in 1..n : OnSegment(xy[e], xy[nxt(e)], x, y)
      \/ Cardinality({e \in 1..n : Crosses(xy[e], xy[nxt(e)], x, y)}) % 2 = 1

\* draw.rectangle([x0, y0, x1, y1], fill): both corners inclusive
InRectangle(xy, x, y) ==
  xy[1] <= x /\ x <= xy[3] /\ xy[2] <= y /\ y <= xy[4]

\* draw.ellipse([x0, y0, x1, y1], fill): the ellipse inscribed in the box
InEllipse(xy, x, y) ==
  LET w == xy[3] - xy[1]
      h == xy[4] - xy[2]
      dx == 2 * x - (xy[1] + xy[3])
      dy == 2 * y - (xy[2] + xy[4])
  IN  /\ InRectangle(xy, x, y)
      /\ dx * dx * h * h + dy * dy * w * w <= w * w * h * h

\* draw.rounded_rectangle([x0, y0, x1, y1], radius, fill): the box without
\* the parts of its corner squares that lie outside the corner circles
InRoundedRectangle(xy, r, x, y) ==
  LET cx == IF x < xy[1] + r THEN xy[1] + r
            ELSE IF x > xy[3] - r THEN xy[3] - r ELSE x
      cy == IF y < xy[2] + r THEN xy[2] + r
            ELSE IF y > xy[4] - r THEN xy[4] - r ELSE y
  IN  /\ InRectangle(xy, x, y)
      /\ (x - cx) * (x - cx) + (y - cy) * (y - cy) <= r * r

\* draw.line([x0, y, x1, y], fill, width): every line of the script is
\* horizontal; a wide line covers width rows, the extra row(s) above first
InLine(xy, width, x, y) ==
  /\ xy[1] <= x /\ x <= xy[3]
  /\ xy[2] - (width \div 2) <= y
  /\ y <= xy[2] + ((width - 1) \div 2)

\* cell of one character of the default bitmap font
GLYPH_W == 6
GLYPH_H == 11

\* draw.text((x, y), text, fill): the character cells of the text, anchored
\* with their top-left corner at (x, y)
InText(xy, text, x, y) ==
  /\ xy[1] <= x /\ x < xy[1] + GLYPH_W * Len(text)
  /\ xy[2] <= y /\ y < xy[2] + GLYPH_H

Min(S) == CHOOSE m \in S : \A n \in S : m <= n
Max(S) == CHOOSE m \in S : \A n \in S : n <= m

\* the box [x0, y0, x1, y1] outside of which a draw call writes nothing
BBox(prim) ==
  CASE prim.kind = "polygon" ->
         << Min({prim.xy[e][1] : e \in DOMAIN prim.xy}),
            Min({prim.xy[e][2] : e \in DOMAIN prim.xy}),
            Max({prim.xy[e][1] : e \in DOMAIN prim.xy}),
            Max({prim.xy[e][2] : e \in DOMAIN prim.xy}) >>
    [] prim.kind = "line" ->
         << prim.xy[1], prim.xy[2] - prim.width, prim.xy[3], prim.xy[4] + prim.width >>
    [] prim.kind = "text" ->
         << prim.xy[1], prim.xy[2],
            prim.xy[1] + GLYPH_W * Len(prim.text), prim.xy[2] + GLYPH_H >>
    [] OTHER -> prim.xy

\* the pixels a draw call writes
Covers(prim, x, y) ==
  CASE prim.kind = "polygon" -> InPolygon(prim.xy, x, y)
    [] prim.kind = "rectangle" -> InRectangle(prim.xy, x, y)
    [] prim.kind = "ellipse" -> InEllipse(prim.xy, x, y)
    [] prim.kind = "rounded_rectangle" -> InRoundedRectangle(prim.xy, prim.radius, x, y)
    [] prim.kind = "line" -> InLine(prim.xy, prim.width, x, y)
    [] prim.kind = "text" -> InText(prim.xy, prim.text, x, y)

\* ------------------------------------------------------------------ images
NoImg == [size |-> <<0, 0>>, px |-> << >>]

\* a slip: the canvas is created opaque white
NewImage_opaque(size, color) ==
  [size |-> size,
   px |-> [x \in 0..(size[1] - 1) |->
            [y \in 0..(size[2] - 1) |-> RGBA(255, 255, 255, 255)]]]

\* Image.new('RGBA', size, color)
NewImage(size, color) ==
  [size |-> size,
   px |-> [x \in 0..(size[1] - 1) |-> [y \in 0..(size[2] - 1) |-> color]]]

\* One draw call on an RGBA canvas: the covered pixels, which all lie in the
\* bounding box of the primitive, take the ink; the drawing is clipped to the
\* canvas and nothing is blended.
Draw(im, prim) ==
  LET b == BBox(prim)
  IN  [size |-> im.size,
       px |-> [x \in 0..(im.size[1] - 1) |->
                [y \in 0..(im.size[2] - 1) |->
                  IF InRectangle(b, x, y) /\ Covers(prim, x, y)
                  THEN prim.fill ELSE im.px[x][y]]]]

\* ------------------------------------------------------------- file system
\* fs.dirs: the directories that exist; fs.files: path -> file content, a
\* record [complete, img]
NoFiles == << >>

FileOf(im) == [complete |-> TRUE, img |-> im]
Truncated == [complete |-> FALSE, img |-> NoImg]

Exists(files, path) == path \in DOMAIN files

WriteFile(files, path, content) ==
  [p \in (DOMAIN files) \cup {path} |-> IF p = path THEN content ELSE files[p]]

\* os.makedirs(dir, exist_ok): "ok", or the exception raised because the
\* directory is already there
MakedirsResult(f, dir, exist_ok) ==
  IF dir \in f.dirs /\ ~exist_ok THEN "FileExistsError" ELSE "ok"

\* img.save(path, "PNG") that fails: either the file could not be opened
\* (nothing changes) or it was opened for writing and is left truncated
SaveFailOutcomes(f, path) ==
  {f} \cup (IF path[1] \in f.dirs
            THEN {[f EXCEPT !.files = WriteFile(f.files, path, Truncated)]}
            ELSE {})

\* ------------------------------------------------------------------- state
VARIABLES
  fs,        \* the file system, the only state that outlives a run
  pc,        \* position of main(): idle makedirs loop call print_dir done error
  i,         \* index into icons of the for loop of main()
  cpc,       \* position of create_icon: none new draw print ret raised
  icon_path, \* arguments of the running create_icon call
  shape,
  color,
  img,       \* the canvas of the running create_icon call
  k,         \* number of the next draw call of the running create_icon call
  stdout,    \* the lines printed by the run
  err,       \* the exception that ended the run or the call, "none" if none
  runs,      \* number of runs of the script started so far
  ncall,     \* number of create_icon calls made so far in this run
  trace,     \* history: the operations of this run, in order
  wrote      \* history: path -> the arguments of the last call that saved there

vars == <<fs, pc, i, cpc, icon_path, shape, color, img, k, stdout, err,
          runs, ncall, trace, wrote>>

callvars == <<cpc, icon_path, shape, color, img, k>>

Event(op, call, arg) == [op |-> op, call |-> call, arg |-> arg]

Init ==
  /\ fs = [dirs |-> {}, files |-> NoFiles]
  /\ pc = "idle"
  /\ i = 0
  /\ cpc = "none"
  /\ icon_path = <<"", "">>
  /\ shape = ""
  /\ color = RGBA(0, 0, 0, 0)
  /\ img = NoImg
  /\ k = 0
  /\ stdout = << >>
  /\ err = "none"
  /\ runs = 0
  /\ ncall = 0
  /\ trace = << >>
  /\ wrote = NoFiles

\* ------------------------------------------------------------- create_icon
\* a slip: the last draw call of the branch is skipped
MoreToDraw_short(s, c, n) == n < Len(Prims(s, c))

\* the dispatch on shape has further draw calls to make
MoreToDraw(s, c, n) == n <= Len(Prims(s, c))

\* all draw calls are made, line 87 is next
ReadyToSave == cpc = "draw" /\ ~MoreToDraw(shape, color, k)

\* a slip: one canvas shared by all calls, created by the first
Canvas_shared(old) == IF old = NoImg THEN NewImage(ICON_SIZE, BG_COLOR) ELSE old

\* the canvas a call starts from; old is the canvas left by the previous call
Canvas(old) == NewImage(ICON_SIZE, BG_COLOR)

\* lines 18-19: img = Image.new('RGBA', ICON_SIZE, BG_COLOR)
CI_New ==
  /\ cpc = "new"
  /\ img' = Canvas(img)
  /\ k' = 1
  /\ cpc' = "draw"
  /\ trace' = Append(trace, Event("new", ncall, ICON_SIZE))
  /\ UNCHANGED <<fs, pc, i, icon_path, shape, color, stdout, err, runs, ncall, wrote>>

\* lines 22-84: the next draw call of the branch taken for shape
CI_Draw ==
  /\ cpc = "draw"
  /\ MoreToDraw(shape, color, k)
  /\ LET prim == Prims(shape, color)[k]
     IN  /\ img' = Draw(img, prim)
         /\ trace' = Append(trace, Event("draw", ncall, prim))
  /\ k' = k + 1
  /\ UNCHANGED <<fs, pc, i, cpc, icon_path, shape, color, stdout, err, runs, ncall, wrote>>

\* line 87: img.save(icon_path, "PNG") succeeds
CI_Save ==
  /\ ReadyToSave
  /\ icon_path[1] \in fs.dirs
  /\ fs' = [fs EXCEPT !.files = WriteFile(fs.files, icon_path, FileOf(img))]
  /\ cpc' = "print"
  /\ trace' = Append(trace, Event("save", ncall, icon_path))
  /\ wrote' = WriteFile(wrote, icon_path, <<shape, color>>)
  /\ UNCHANGED <<pc, i, icon_path, shape, color, img, k, stdout, err, runs, ncall>>

\* line 87: img.save raises (missing directory, full disk, no permission)
CI_SaveFail ==
  /\ ReadyToSave
  /\ fs' \in SaveFailOutcomes(fs, icon_path)
  /\ cpc' = "raised"
  /\ err' = "OSError"
  /\ trace' = Append(trace, Event("raise", ncall, "save"))
  /\ UNCHANGED <<pc, i, icon_path, shape, color, img, k, stdout, runs, ncall, wrote>>

\* line 88: print the generated message and return
CI_Print ==
  /\ cpc = "print"
  /\ stdout' = Append(stdout, <<"generated", icon_path>>)
  /\ cpc' = "ret"
  /\ trace' = Append(trace, Event("print", ncall, <<"generated", icon_path>>))
  /\ UNCHANGED <<fs, pc, i, icon_path, shape, color, img, k, err, runs, ncall, wrote>>

CreateIcon == CI_New \/ CI_Draw \/ CI_Save \/ CI_SaveFail \/ CI_Print

\* -------------------------------------------------------------------- main
\* a slip: the loop stops one entry early
LoopDone_early(n) == n >= Len(icons)

\* the for loop has run out of entries
LoopDone(n) == n > Len(icons)

\* a slip: the exception is swallowed and the loop goes on
OnError_swallow == "loop"

\* where main() continues when a call it made raises: nowhere, there is no
\* try statement
OnError == "error"

\* line 115: the script is started; it starts with fresh process state
MainStart ==
  /\ pc \in {"idle", "done", "error"}
  /\ runs < MaxRuns
  /\ runs' = runs + 1
  /\ pc' = "makedirs"
  /\ i' = 0
  /\ cpc' = "none"
  /\ icon_path' = <<"", "">>
  /\ shape' = ""
  /\ color' = RGBA(0, 0, 0, 0)
  /\ img' = NoImg
  /\ k' = 0
  /\ stdout' = << >>
  /\ err' = "none"
  /\ ncall' = 0
  /\ trace' = << >>
  /\ UNCHANGED <<fs, wrote>>

\* line 94: os.makedirs(icon_dir, exist_ok=True) succeeds
Makedirs ==
  /\ pc = "makedirs"
  /\ MakedirsResult(fs, icon_dir, TRUE) = "ok"
  /\ fs' = [fs EXCEPT !.dirs = @ \cup {icon_dir}]
  /\ pc' = "loop"
  /\ i' = 1
  /\ trace' = Append(trace, Event("makedirs", 0, icon_dir))
  /\ UNCHANGED <<callvars, stdout, err, runs, ncall, wrote>>

\* line 94: os.makedirs raises
MakedirsFail ==
  /\ pc = "makedirs"
  /\ err' \in {"OSError"} \cup ({MakedirsResult(fs, icon_dir, TRUE)} \ {"ok"})
  /\ pc' = OnError
  /\ trace' = Append(trace, Event("raise", 0, "makedirs"))
  /\ UNCHANGED <<fs, i, callvars, stdout, runs, ncall, wrote>>

\* lines 107-109: the next entry of icons; create_icon is called with it
LoopCall ==
  /\ pc = "loop"
  /\ ~LoopDone(i)
  /\ icon_path' = PathJoin(icon_dir, icons[i][1])
  /\ shape' = icons[i][2]
  /\ color' = icons[i][3]
  /\ cpc' = "new"
  /\ pc' = "call"
  /\ ncall' = ncall + 1
  /\ trace' = Append(trace, Event("call", ncall + 1, <<icon_path', shape', color'>>))
  /\ UNCHANGED <<fs, i, img, k, stdout, err, runs, wrote>>

\* line 109: create_icon returned, the loop moves on
LoopReturn ==
  /\ pc = "call"
  /\ cpc = "ret"
  /\ i' = i + 1
  /\ pc' = "loop"
  /\ cpc' = "none"
  /\ UNCHANGED <<fs, icon_path, shape, color, img, k, stdout, err, runs, ncall, trace, wrote>>

\* line 109: create_icon raised; the exception leaves main()
LoopRaise ==
  /\ pc = "call"
  /\ cpc = "raised"
  /\ pc' = OnError
  /\ cpc' = "none"
  /\ UNCHANGED <<fs, i, icon_path, shape, color, img, k, stdout, err, runs, ncall, trace, wrote>>

\* line 111: the loop is over, the completion message is printed
PrintDone ==
  /\ pc = "loop"
  /\ LoopDone(i)
  /\ stdout' = Append(stdout, <<"all_done", <<>> >>)
  /\ pc' = "print_dir"
  /\ trace' = Append(trace, Event("print", 0, <<"all_done", <<>> >>))
  /\ UNCHANGED <<fs, i, callvars, err, runs, ncall, wrote>>

\* line 112: the location message is printed and main() returns
PrintDir ==
  /\ pc = "print_dir"
  /\ stdout' = Append(stdout, <<"saved_at", <<icon_dir>> >>)
  /\ pc' = "done"
  /\ trace' = Append(trace, Event("print", 0, <<"saved_at", <<icon_dir>> >>))
  /\ UNCHANGED <<fs, i, callvars, err, runs, ncall, wrote>>

Main ==
  \/ MainStart \/ Makedirs \/ MakedirsFail
  \/ LoopCall \/ LoopReturn \/ LoopRaise
  \/ PrintDone \/ PrintDir

Next == Main \/ CreateIcon

Spec == Init /\ [][Next]_vars

\* ------------------------------------------------- create_icon called directly
\* A caller other than main() calls create_icon any number of times, with any
\* of these arguments, in any order.
TestShapes == KnownShapes \cup {"settings"}
TestColors == {ICON_COLOR, ACTIVE_ICON_COLOR}
TestPaths == {PathJoin(icon_dir, "icon.png")}

InitCall ==
  /\ fs = [dirs |-> {icon_dir}, files |-> NoFiles]
  /\ pc = "direct"
  /\ i = 0
  /\ cpc = "none"
  /\ icon_path = <<"", "">>
  /\ shape = ""
  /\ color = RGBA(0, 0, 0, 0)
  /\ img = NoImg
  /\ k = 0
  /\ stdout = << >>
  /\ err = "none"
  /\ runs = 0
  /\ ncall = 0
  /\ trace = << >>
  /\ wrote = NoFiles

\* line 15: create_icon(icon_path, shape, color) is entered; trace and stdout
\* keep the current call only
DirectCall ==
  /\ pc = "direct"
  /\ cpc \in {"none", "ret"}
  /\ \E p \in TestPaths, s \in TestShapes, c \in TestColors :
       /\ icon_path' = p
       /\ shape' = s
       /\ color' = c
       /\ trace' = << Event("call", 1, <<p, s, c>>) >>
  /\ cpc' = "new"
  /\ ncall' = 1
  /\ stdout' = << >>
  /\ err' = "none"
  /\ UNCHANGED <<fs, pc, i, img, k, runs, wrote>>

\* create_icon raised and the caller has no try statement either
DirectRaise ==
  /\ pc = "direct"
  /\ cpc = "raised"
  /\ pc' = OnError
  /\ cpc' = "none"
  /\ UNCHANGED <<fs, i, icon_path, shape, color, img, k, stdout, err, runs, ncall, trace, wrote>>

NextCall == DirectCall \/ DirectRaise \/ CreateIcon

SpecCall == InitCall /\ [][NextCall]_vars

\* ---------------------------------------------------- reading the history
\* the operations of call n of this run, in order
Ops(n) == SelectSeq(trace, LAMBDA e : e.call = n /\ e.op # "call")

\* the primitives call n has drawn so far, in order
Drawn(n) ==
  LET d == SelectSeq(trace, LAMBDA e : e.call = n /\ e.op = "draw")
  IN  [j \in 1..Len(d) |-> d[j].arg]

\* the create_icon calls of this run: <<icon_path, shape, color>>, in order
Calls ==
  LET c == SelectSeq(trace, LAMBDA e : e.op = "call")
  IN  [j \in 1..Len(c) |-> c[j].arg]

\* the paths saved in this run, in order
Saves ==
  LET c == SelectSeq(trace, LAMBDA e : e.op = "save")
  IN  [j \in 1..Len(c) |-> c[j].arg]

\* call n is past its draw calls: it saved, or failed to
PastDrawing(n) == \E j \in 1..Len(Ops(n)) : Ops(n)[j].op \in {"save", "raise"}

Count(seq, op) == Cardinality({j \in 1..Len(seq) : seq[j].op = op})

Rank(op) ==
  CASE op = "new" -> 1
    [] op = "draw" -> 2
    [] op \in {"save", "raise"} -> 3
    [] op = "print" -> 4

Transparent == RGBA(255, 255, 255, 0)
Accent == RGBA(0, 122, 255, 255)
Default == RGBA(51, 51, 51, 255)
Orange == RGBA(255, 165, 0, 255)

Xs == 0..80
Ys == 0..80

IsFile(path) == Exists(fs.files, path) /\ fs.files[path].complete

\* ------------------------------------------------------------------ claims
\* C1: a run of main() in which nothing fails calls create_icon exactly six
\* times, for home, home-active, member, member-active, activity and
\* activity-active in that order; call j writes '<shape>.png', the six files
\* are distinct and none is written twice; normal shapes get the default
\* colour and active shapes the accent colour.
Inv_C1_SixCalls ==
  /\ \A a, b \in 1..Len(Saves) : a # b => Saves[a] # Saves[b]
  /\ pc = "done" =>
       /\ Calls = << << <<"images", "home.png">>, "home", Default >>,
                     << <<"images", "home-active.png">>, "home-active", Accent >>,
                     << <<"images", "member.png">>, "member", Default >>,
                     << <<"images", "member-active.png">>, "member-active", Accent >>,
                     << <<"images", "activity.png">>, "activity", Default >>,
                     << <<"images", "activity-active.png">>, "activity-active", Accent >> >>
       /\ Saves = [j \in 1..6 |-> Calls[j][1]]

W_C1 == pc = "done" /\ runs = 1 /\ Len(Saves) = 6

\* C2: within every create_icon call the canvas is created first, then all
\* primitives of the icon are drawn, then the file is written, exactly once;
\* nothing is drawn after the file has been written.
Inv_C2_Order ==
  \A n \in 1..ncall :
    LET o == Ops(n)
    IN  /\ \A a, b \in 1..Len(o) : a < b => Rank(o[a].op) <= Rank(o[b].op)
        /\ Len(o) > 0 => o[1].op = "new"
        /\ Count(o, "new") <= 1
        /\ Count(o, "save") + Count(o, "raise") <= 1
        /\ PastDrawing(n) => Drawn(n) = Prims(Calls[n][2], Calls[n][3])
        /\ Count(o, "print") = 1 => Count(o, "save") = 1

W_C2 == cpc = "ret" /\ shape = "activity-active" /\ Len(Drawn(ncall)) = 6

\* C3: the canvas of every icon is 81x81 and fully transparent before the
\* first primitive is drawn; the saved image is 81x81 and every pixel that no
\* primitive of the icon covers is still the transparent background.
Inv_C3_Canvas ==
  /\ (cpc = "draw" /\ k = 1) =>
       /\ img.size = <<81, 81>>
       /\ DOMAIN img.px = Xs
       /\ \A x \in Xs : DOMAIN img.px[x] = Ys
       /\ \A x \in Xs, y \in Ys : Alpha(img.px[x][y]) = 0
  /\ cpc \in {"print", "ret"} =>
       /\ IsFile(icon_path)
       /\ LET f == fs.files[icon_path].img
              d == Drawn(ncall)
          IN  /\ f.size = <<81, 81>>
              /\ DOMAIN f.px = Xs
              /\ \A x \in Xs, y \in Ys :
                   (\A j \in 1..Len(d) : ~Covers(d[j], x, y)) =>
                     f.px[x][y] = Transparent

W_C3 ==
  /\ cpc = "ret"
  /\ shape = "home-active"
  /\ fs.files[icon_path].img.px[0][0] = Transparent
  /\ fs.files[icon_path].img.px[63][63] = Orange

\* the calls of this run made for shape s
CallsOf(s) == {n \in 1..Len(Calls) : Calls[n][2] = s}

\* a is the recipe n with the solid fills in the accent colour, followed by
\* one orange marker
ActiveOf(n, a) ==
  /\ Len(a) = Len(n) + 1
  /\ \A j \in 1..Len(n) :
       /\ a[j].kind = n[j].kind
       /\ a[j].xy = n[j].xy
       /\ a[j].radius = n[j].radius
       /\ a[j].width = n[j].width
       /\ a[j].text = n[j].text
       /\ n[j].fill \in {Default, Transparent}
       /\ a[j].fill = (IF n[j].fill = Default THEN Accent ELSE Transparent)
       /\ n[j].fill # Orange
  /\ a[Len(a)].fill = Orange

\* C4: for home, member and activity the active variant draws the primitives
\* of the normal variant, same kinds, coordinates and order, with the solid
\* fills in the accent colour instead of the default colour, followed by
\* exactly one orange marker drawn last; the normal variant has no marker.
Inv_C4_ActiveVariant ==
  \A pair \in { <<"home", "home-active">>, <<"member", "member-active">>,
                <<"activity", "activity-active">> } :
    \A n \in CallsOf(pair[1]), a \in CallsOf(pair[2]) :
      (PastDrawing(n) /\ PastDrawing(a)) => ActiveOf(Drawn(n), Drawn(a))

W_C4 ==
  /\ pc = "done"
  /\ \E n \in CallsOf("activity"), a \in CallsOf("activity-active") :
       /\ PastDrawing(n) /\ PastDrawing(a)
       /\ Len(Drawn(a)) = 6
       /\ Drawn(a)[6].kind = "polygon"

\* C5: a failure of makedirs or of the save of the k-th icon is neither
\* caught nor retried: the exception ends the run, no icon after the k-th is
\* drawn or written, the completion message is not printed, and the files
\* written before the failure stay in place.
Inv_C5_Failure ==
  err # "none" =>
    /\ pc = "error" \/ (pc = "call" /\ cpc = "raised")
    /\ trace[Len(trace)].op = "raise"
    /\ Count(trace, "raise") = 1
    /\ \A j \in 1..Len(stdout) : stdout[j][1] = "generated"
    /\ trace[Len(trace)].arg = "makedirs" =>
         /\ ncall = 0
         /\ Len(Saves) = 0
    /\ trace[Len(trace)].arg = "save" =>
         /\ trace[Len(trace)].call = ncall
         /\ Len(Calls) = ncall
         /\ Len(Saves) = ncall - 1
         /\ Len(stdout) = ncall - 1
         /\ \A j \in 1..(ncall - 1) :
              /\ Saves[j] = Calls[j][1]
              /\ IsFile(Saves[j])
              /\ wrote[Saves[j]] = <<Calls[j][2], Calls[j][3]>>

W_C5 ==
  /\ pc = "error"
  /\ ncall = 3
  /\ trace[Len(trace)].arg = "save"
  /\ IsFile(<<"images", "home.png">>)
  /\ IsFile(<<"images", "home-active.png">>)
  /\ ~IsFile(<<"images", "member.png">>)

\* C6: nothing is kept between icons or between runs: every call starts
\* from a fresh canvas, the image a call is about to save equals the file
\* that an earlier call (of an earlier run) with the same arguments left at
\* that path, and a run that finds the directory and the files in place
\* does not fail because of them and leaves all six files written.
Inv_C6_NoState ==
  /\ (cpc = "draw" /\ k = 1) =>
       \A x \in Xs, y \in Ys : img.px[x][y] = Transparent
  /\ (ReadyToSave /\ IsFile(icon_path) /\ wrote[icon_path] = <<shape, color>>) =>
       img = fs.files[icon_path].img
  /\ err # "FileExistsError"
  /\ pc = "done" => \A j \in 1..Len(Calls) : IsFile(Calls[j][1])

W_C6 ==
  /\ runs = 2
  /\ pc = "call"
  /\ ncall = 4
  /\ ReadyToSave
  /\ IsFile(icon_path)
  /\ wrote[icon_path] = <<shape, color>>
  /\ img = fs.files[icon_path].img

\* C7 as claimed: in a run without failure the directory is ensured before
\* the first file is written, all six files are written before the completion
\* message, and the completion message is printed once, as the final step.
CE_C7_FinalStep ==
  pc = "done" =>
    /\ trace[1].op = "makedirs"
    /\ Len(Saves) = 6
    /\ Cardinality({j \in 1..Len(stdout) : stdout[j][1] = "all_done"}) = 1
    /\ stdout[Len(stdout)][1] = "all_done"

\* C7 amended: as claimed, except that the completion message is followed by
\* one more line, the location of the icons, which is the final step.
Inv_C7_SinglePass ==
  /\ Len(Saves) > 0 => trace[1].op = "makedirs"
  /\ \A j \in 1..Len(stdout) :
       stdout[j][1] = "all_done" =>
         /\ j = 7
         /\ Len(Saves) = 6
         /\ \A p \in {Saves[q] : q \in 1..6} : IsFile(p)
  /\ pc = "done" =>
       /\ Len(stdout) = 8
       /\ stdout[7][1] = "all_done"
       /\ stdout[8] = <<"saved_at", <<"images">> >>
       /\ trace[Len(trace)].arg = stdout[8]
       /\ Len(Calls) = 6

W_C7 == pc = "done" /\ Len(stdout) = 8 /\ Len(Saves) = 6

\* some pixel is covered by both primitives
Overlap(p, q) == \E x \in Xs, y \in Ys : Covers(p, x, y) /\ Covers(q, x, y)

IsCutout(p) == p.fill = Transparent

\* cutout j of the recipe d is drawn after a solid primitive it cuts into
CutsInto(d, j) == \E h \in 1..(j - 1) : ~IsCutout(d[h]) /\ Overlap(d[h], d[j])

\* every cutout of the recipe d is drawn after the solid primitives it cuts
\* into, no later primitive touches it, and its pixels are transparent in f
CutoutsKept(d, f) ==
  \A j \in 1..Len(d) :
    IsCutout(d[j]) =>
      /\ CutsInto(d, j)
      /\ \A h \in (j + 1)..Len(d) : ~Overlap(d[j], d[h])
      /\ \A x \in Xs, y \in Ys : Covers(d[j], x, y) => f.px[x][y] = Transparent

\* every cutout of the recipe d is drawn after the solid primitives it cuts
\* into, only the orange marker drawn last touches it, and does, and its
\* pixels are orange in f under the marker and transparent elsewhere
CutoutsUnderMarker(d, f) ==
  \A j \in 1..Len(d) :
    IsCutout(d[j]) =>
      /\ CutsInto(d, j)
      /\ \A h \in (j + 1)..Len(d) :
           Overlap(d[j], d[h]) => (h = Len(d) /\ d[h].fill = Orange)
      /\ Overlap(d[j], d[Len(d)])
      /\ \A x \in Xs, y \in Ys :
           Covers(d[j], x, y) =>
             f.px[x][y] = (IF Covers(d[Len(d)], x, y) THEN Orange ELSE Transparent)

\* C8 as claimed: in every icon each cutout is drawn after the solid
\* primitives it cuts into and no later primitive, the marker included,
\* covers a pixel of it, so every cutout pixel is transparent in the saved
\* image.
CE_C8_CutoutsKept ==
  cpc \in {"print", "ret"} =>
    CutoutsKept(Drawn(ncall), fs.files[icon_path].img)

\* C8 amended: that holds for every icon but member-active, where the star
\* drawn last covers pixels of both card-number lines: these pixels are
\* orange in the saved image, the other cutout pixels are transparent.
Inv_C8_Cutouts ==
  cpc \in {"print", "ret"} =>
    IF shape = "member-active"
    THEN CutoutsUnderMarker(Drawn(ncall), fs.files[icon_path].img)
    ELSE CutoutsKept(Drawn(ncall), fs.files[icon_path].img)

W_C8 ==
  /\ cpc = "ret"
  /\ shape = "member-active"
  /\ fs.files[icon_path].img.px[58][35] = Orange
  /\ fs.files[icon_path].img.px[30][35] = Transparent
  /\ fs.files[icon_path].img.px[30][30] = Accent

\* C9: the colour argument decides the fill of every solid primitive of the
\* normal shapes, so that two colours give two images, and has no effect on
\* the image of an active shape.
Inv_C9_Colour ==
  /\ shape \in {"home", "member", "activity"} =>
       \A j \in 1..Len(Drawn(ncall)) :
         ~IsCutout(Drawn(ncall)[j]) => Drawn(ncall)[j].fill = color
  /\ (ReadyToSave /\ IsFile(icon_path) /\ wrote[icon_path][1] = shape) =>
       /\ shape \in {"home-active", "member-active", "activity-active"} =>
            img = fs.files[icon_path].img
       /\ shape \in {"home", "member", "activity"} =>
            ((img = fs.files[icon_path].img) <=> (wrote[icon_path][2] = color))

W_C9 ==
  /\ ReadyToSave
  /\ shape = "member-active"
  /\ color = Accent
  /\ IsFile(icon_path)
  /\ wrote[icon_path] = <<"member-active", Default>>
  /\ img = fs.files[icon_path].img

\* C10: create_icon with a shape that is none of the six names draws
\* nothing and raises nothing: it writes a file holding the 81x81 canvas with
\* every pixel fully transparent and prints the generated message.
Inv_C10_UnknownShape ==
  shape \notin {"", "home", "home-active", "member", "member-active",
                "activity", "activity-active"} =>
    /\ Len(Drawn(ncall)) = 0
    /\ err # "none" => trace[Len(trace)] = Event("raise", ncall, "save")
    /\ cpc \in {"print", "ret"} =>
         /\ IsFile(icon_path)
         /\ fs.files[icon_path].img.size = <<81, 81>>
         /\ fs.files[icon_path].img.px = [x \in Xs |-> [y \in Ys |-> Transparent]]
         /\ wrote[icon_path] = <<shape, color>>
    /\ cpc = "ret" => stdout = << <<"generated", icon_path>> >>

W_C10 ==
  /\ cpc = "ret"
  /\ shape = "settings"
  /\ IsFile(icon_path)
  /\ stdout = << <<"generated", icon_path>> >>

====
